---- MODULE Spec2Model ----
(***************************************************************************)
(* A model of TimedEventQueue<int> (src/TimedEventQueue.hpp) together with *)
(* the subclass MyTimedEventQueue that supplies the expiration handler     *)
(* (src/myTimedEventQueue.cpp).                                            *)
(*                                                                         *)
(* Threads: one worker thread running run(), caller threads that invoke    *)
(* the mutation operations, and threads that invoke stop() / destroy the   *)
(* object.  Every mutation operation runs wholly under std::scoped_lock    *)
(* on _mutex, so it is one atomic action guarded by the mutex being free.  *)
(* run() and stop() are split at every point where another thread can      *)
(* observe or change shared state (_exit, the condition variable, the      *)
(* clock).                                                                 *)
(*                                                                         *)
(* Undefined behaviour is a nondeterministic choice: dereferencing         *)
(* begin() of an empty map reads an arbitrary pair; erase(begin()) of an   *)
(* empty map either never returns (the worker spins inside it with the     *)
(* lock held) or aborts the process; writing the key of an empty node      *)
(* handle aborts the process (crashed).                                    *)
(***************************************************************************)
EXTENDS Integers, Sequences, FiniteSets, TLC

\* ---------------------------------------------------------------- bounds
\* the steady clock runs over 0..MaxTime
MaxTime == 2
\* values of type T = int are 0..MaxVal
MaxVal == 2
\* at most MaxAdds events are ever created by addEvent after construction
MaxAdds == 2

\* ------------------------------------------------------------- constants
\* CENTENNIAL: a time point beyond every instant the clock reaches
Centennial == MaxTime + 1
\* T() for T = int
DefaultValue == 0

\* time points a caller passes (CENTENNIAL is computed inside the
\* constructor and handed to no caller)
Timestamps == 1..MaxTime
\* any time point an uninitialised read can produce
AnyTime == 0..Centennial
Values == 0..MaxVal
\* the threads that call stop(); "owner" is also the one that destroys
Stoppers == {"owner", "other"}
\* ghost identities of created events: 1 is the sentinel, 0 is "no event"
MaxId == MaxAdds + 1

VARIABLES
  ts2Val,        \* _ts2Val : std::map<TIMESTAMP, T>
  val2Ts,        \* _val2Ts : std::map<T, TIMESTAMP>
  mutex,         \* _mutex  : "free" or "worker" (callers hold it inside one action)
  signalled,     \* _cv     : a notify_one has reached the blocked worker
  exit,          \* _exit
  joinable,      \* _thread.joinable()
  wpc,           \* the worker's position in run()
  deadline,      \* the absolute time the worker's wait_until was armed with
  current_time,  \* run()'s local current_time
  head,          \* the pair *_ts2Val.begin() that the drain loop is working on
  clock,         \* TIME::now()
  spc,           \* each stopping thread's position in stop(): idle, notify, join, joining, returned, threw, blocked
  obj,           \* the object's lifetime: alive, derived_gone, stopping, destroyed
  crashed,       \* the process was aborted by undefined behaviour
  evId,          \* ghost: identity of the event in each _ts2Val node
  nextId,        \* ghost: next identity to hand out
  delivered,     \* ghost: identities the handler was invoked for, in order
  firedTs,       \* ghost: timestamps of the stored events fired in the current drain
  cancelled,     \* ghost: identities addressed by a completed removeEvent
  dup,           \* ghost: some call introduced a timestamp or value already held
  tornAccess,    \* ghost: the handler was invoked on a partly destroyed object
  stopAt,        \* ghost: the clock instant at which stop() set _exit (0 before)
  stoppedTwice   \* ghost: a stop() was called after an earlier stop() had returned

store   == <<ts2Val, val2Ts>>
sync    == <<mutex, signalled, exit, joinable>>
worker  == <<wpc, deadline, current_time, head>>
life    == <<spc, obj, crashed>>
ghost   == <<evId, nextId, delivered, firedTs, cancelled, dup, tornAccess, stopAt, stoppedTwice>>
vars    == <<store, sync, worker, life, ghost, clock>>

\* ----------------------------------------------------------- std::map
EmptyMap == [k \in {} |-> 0]

\* std::map::erase(key)
MapErase(m, k) == [x \in DOMAIN m \ {k} |-> m[x]]

\* std::map::emplace(key, value): no effect when the key is present
MapEmplace(m, k, v) ==
  IF k \in DOMAIN m THEN m
  ELSE [x \in DOMAIN m \cup {k} |-> IF x = k THEN v ELSE m[x]]

\* a begin() that yields the greatest key instead of the least
MapLastKey(m) == CHOOSE k \in DOMAIN m : \A x \in DOMAIN m : k >= x

\* the key of std::map::begin(): the least key
MapBeginKey(m) == CHOOSE k \in DOMAIN m : \A x \in DOMAIN m : k <= x

\* a re-keying that copies the node instead of extracting it
MapRekeyCopied(m, old, new) == MapEmplace(m, new, m[old])

\* extract(old); key() = new; insert(node): the node is destroyed when the
\* new key is already present
MapRekey(m, old, new) == MapEmplace(MapErase(m, old), new, m[old])

\* the assignment through the iterator forgotten
AssignMappedSkipped(m, k, x) == m

\* itr->second = x
AssignMapped(m, k, x) == [m EXCEPT ![k] = x]

\* erase(begin()) forgotten
EraseBeginSkipped(m) == m

\* std::map::erase(begin())
EraseBegin(m) == MapErase(m, MapBeginKey(m))

NoHead == [ts |-> 0, val |-> 0, id |-> 0]

\* what dereferencing _ts2Val.begin() can yield: the earliest pair, or an
\* arbitrary pair when the map is empty
BeginPairs ==
  IF DOMAIN ts2Val # {}
  THEN {[ts |-> MapBeginKey(ts2Val), val |-> ts2Val[MapBeginKey(ts2Val)],
         id |-> evId[MapBeginKey(ts2Val)]]}
  ELSE {[ts |-> t, val |-> v, id |-> 0] : t \in AnyTime, v \in Values}

\* a notification that never reaches the worker
NotifyLost == signalled

\* _cv.notify_one(): wakes the worker only if it is blocked in the wait
NotifyOne == IF wpc = "waiting" THEN TRUE ELSE signalled

\* ------------------------------------------------------------------ Init
\* the state after the constructor: the sentinel added, the worker started
Init ==
  /\ ts2Val = MapEmplace(EmptyMap, Centennial, DefaultValue)
  /\ val2Ts = MapEmplace(EmptyMap, DefaultValue, Centennial)
  /\ mutex = "free"
  /\ signalled = FALSE
  /\ exit = FALSE
  /\ joinable = TRUE
  /\ wpc = "loop"
  /\ deadline = 0
  /\ current_time = 0
  /\ head = NoHead
  /\ clock = 0
  /\ spc = [s \in Stoppers |-> "idle"]
  /\ obj = "alive"
  /\ crashed = FALSE
  /\ evId = MapEmplace(EmptyMap, Centennial, 1)
  /\ nextId = 2
  /\ delivered = << >>
  /\ firedTs = << >>
  /\ cancelled = {}
  /\ dup = FALSE
  /\ tornAccess = FALSE
  /\ stopAt = 0
  /\ stoppedTwice = FALSE

\* a caller may enter a mutation operation and take the lock
CallerMayRun == ~crashed /\ obj = "alive" /\ mutex = "free"

\* ------------------------------------------------------------ mutations
\* the call introduces no timestamp and no value held by another event
AddIsUnique(t, v) == t \notin DOMAIN ts2Val /\ v \notin DOMAIN val2Ts

UpdateValueIsUnique(t, v) ==
  t \in DOMAIN ts2Val => v \notin DOMAIN val2Ts \ {ts2Val[t]}

UpdateTimestampIsUnique(t, v) ==
  v \in DOMAIN val2Ts => t \notin DOMAIN ts2Val \ {val2Ts[v]}

\* the erase from the timestamp index forgotten
EraseTimestampOfSkipped(m, v) == m

\* _ts2Val.erase(itr->second) for the entry itr of value v in _val2Ts
EraseTimestampOf(m, v) == MapErase(m, val2Ts[v])

addEvent(t, v) ==
  /\ CallerMayRun
  /\ nextId <= MaxId
  /\ ts2Val' = MapEmplace(ts2Val, t, v)
  /\ val2Ts' = MapEmplace(val2Ts, v, t)
  /\ signalled' = NotifyOne
  /\ evId' = MapEmplace(evId, t, nextId)
  /\ nextId' = IF t \in DOMAIN ts2Val THEN nextId ELSE nextId + 1
  /\ dup' = (dup \/ ~AddIsUnique(t, v))
  /\ UNCHANGED <<mutex, exit, joinable, worker, life, clock,
                 delivered, firedTs, cancelled, tornAccess, stopAt, stoppedTwice>>

removeEventByValue(v) ==
  /\ CallerMayRun
  /\ IF v \in DOMAIN val2Ts
     THEN /\ ts2Val' = EraseTimestampOf(ts2Val, v)
          /\ evId' = EraseTimestampOf(evId, v)
          /\ val2Ts' = MapErase(val2Ts, v)
          /\ cancelled' = cancelled \cup
                {evId[t] : t \in {x \in DOMAIN ts2Val : ts2Val[x] = v}}
     ELSE UNCHANGED <<store, evId, cancelled>>
  /\ UNCHANGED <<sync, worker, life, clock,
                 nextId, delivered, firedTs, dup, tornAccess, stopAt, stoppedTwice>>

\* a removeEvent that looks the timestamp up with lower_bound instead of
\* find: an absent timestamp addresses the next later event
removeEventByTimestampLowerBound(t) ==
  /\ CallerMayRun
  /\ IF \E x \in DOMAIN ts2Val : x >= t
     THEN LET k == MapBeginKey([x \in {y \in DOMAIN ts2Val : y >= t} |-> 0])
          IN /\ val2Ts' = MapErase(val2Ts, ts2Val[k])
             /\ ts2Val' = MapErase(ts2Val, k)
             /\ evId' = MapErase(evId, k)
             /\ cancelled' = cancelled \cup {evId[k]}
     ELSE UNCHANGED <<store, evId, cancelled>>
  /\ UNCHANGED <<sync, worker, life, clock,
                 nextId, delivered, firedTs, dup, tornAccess, stopAt, stoppedTwice>>

removeEventByTimestamp(t) ==
  /\ CallerMayRun
  /\ IF t \in DOMAIN ts2Val
     THEN /\ val2Ts' = MapErase(val2Ts, ts2Val[t])
          /\ ts2Val' = MapErase(ts2Val, t)
          /\ evId' = MapErase(evId, t)
          /\ cancelled' = cancelled \cup {evId[t]}
     ELSE UNCHANGED <<store, evId, cancelled>>
  /\ UNCHANGED <<sync, worker, life, clock,
                 nextId, delivered, firedTs, dup, tornAccess, stopAt, stoppedTwice>>

updateValue(t, v) ==
  /\ CallerMayRun
  /\ IF t \in DOMAIN ts2Val
     THEN IF ts2Val[t] \in DOMAIN val2Ts
          THEN /\ val2Ts' = MapRekey(val2Ts, ts2Val[t], v)
               /\ ts2Val' = AssignMapped(ts2Val, t, v)
               /\ signalled' = NotifyOne
               /\ UNCHANGED crashed
          ELSE \* key() of an empty node handle
               /\ crashed' = TRUE
               /\ UNCHANGED <<store, signalled>>
     ELSE /\ signalled' = NotifyOne
          /\ UNCHANGED <<store, crashed>>
  /\ dup' = (dup \/ ~UpdateValueIsUnique(t, v))
  /\ UNCHANGED <<mutex, exit, joinable, worker, spc, obj, clock,
                 evId, nextId, delivered, firedTs, cancelled, tornAccess, stopAt, stoppedTwice>>

updateTimestamp(t, v) ==
  /\ CallerMayRun
  /\ IF v \in DOMAIN val2Ts
     THEN IF val2Ts[v] \in DOMAIN ts2Val
          THEN /\ ts2Val' = MapRekey(ts2Val, val2Ts[v], t)
               /\ evId' = MapRekey(evId, val2Ts[v], t)
               /\ val2Ts' = AssignMapped(val2Ts, v, t)
               /\ signalled' = NotifyOne
               /\ UNCHANGED crashed
          ELSE \* key() of an empty node handle
               /\ crashed' = TRUE
               /\ UNCHANGED <<store, evId, signalled>>
     ELSE /\ signalled' = NotifyOne
          /\ UNCHANGED <<store, evId, crashed>>
  /\ dup' = (dup \/ ~UpdateTimestampIsUnique(t, v))
  /\ UNCHANGED <<mutex, exit, joinable, worker, spc, obj, clock,
                 nextId, delivered, firedTs, cancelled, tornAccess, stopAt, stoppedTwice>>

\* ---------------------------------------------------------------- clock
\* TIME::now() is monotonic
Tick ==
  /\ ~crashed
  /\ clock < MaxTime
  /\ clock' = clock + 1
  /\ UNCHANGED <<store, sync, worker, life, ghost>>

\* ------------------------------------------------------------- run()
\* line 73: while(!_exit.load())
WorkerCheckExit ==
  /\ ~crashed
  /\ wpc = "loop"
  /\ wpc' = IF exit THEN "done" ELSE "lock"
  /\ UNCHANGED <<store, sync, deadline, current_time, head, life, ghost, clock>>

\* lines 75-76: take the lock, read the earliest timestamp, block in
\* wait_until (which releases the lock)
WorkerWait ==
  /\ ~crashed
  /\ wpc = "lock"
  /\ mutex = "free"
  /\ \E h \in BeginPairs : deadline' = h.ts
  /\ wpc' = "waiting"
  /\ signalled' = FALSE
  /\ UNCHANGED <<store, mutex, exit, joinable, current_time, head, life, ghost, clock>>

\* a wait_until that returns without taking the lock again
WakeUnlocked ==
  /\ ~crashed
  /\ wpc = "waiting"
  /\ wpc' = "woken"
  /\ signalled' = FALSE
  /\ deadline' = 0
  /\ UNCHANGED <<store, mutex, exit, joinable, current_time, head, life, ghost, clock>>

\* wait_until returns: the lock is taken again
Wake ==
  /\ ~crashed
  /\ wpc = "waiting"
  /\ mutex = "free"
  /\ mutex' = "worker"
  /\ wpc' = "woken"
  /\ signalled' = FALSE
  /\ deadline' = 0
  /\ UNCHANGED <<store, exit, joinable, current_time, head, life, ghost, clock>>

\* the deadline is reached
WorkerTimeout == clock >= deadline /\ Wake

\* a notify_one reached the blocked worker
WorkerNotified == signalled /\ Wake

\* a spurious wake-up
WorkerSpurious == ~signalled /\ clock < deadline /\ Wake

\* lines 78-81: if(_exit.load()) break;
WorkerCheckWoken ==
  /\ ~crashed
  /\ wpc = "woken"
  /\ IF exit
     THEN wpc' = "done" /\ mutex' = "free"
     ELSE wpc' = "read_clock" /\ UNCHANGED mutex
  /\ UNCHANGED <<store, signalled, exit, joinable, deadline, current_time, head,
                 life, ghost, clock>>

\* line 83: auto current_time = TIME::now();
WorkerReadClock ==
  /\ ~crashed
  /\ wpc = "read_clock"
  /\ current_time' = clock
  /\ wpc' = "test"
  /\ UNCHANGED <<store, sync, deadline, head, life, ghost, clock>>

\* a loop condition that ignores the clock
DrainTestAlways(ts, now) == TRUE

\* line 84: the loop condition
DrainTest(ts, now) == ts <= now

\* line 84: while(_ts2Val.begin()->first <= current_time); on exit the
\* lock goes out of scope
WorkerTest ==
  /\ ~crashed
  /\ wpc = "test"
  /\ \E h \in BeginPairs :
       IF DrainTest(h.ts, current_time)
       THEN /\ head' = h
            /\ wpc' = "invoke"
            /\ UNCHANGED <<mutex, current_time, firedTs>>
       ELSE /\ head' = NoHead
            /\ wpc' = "loop"
            /\ mutex' = "free"
            /\ current_time' = 0
            /\ firedTs' = << >>
  /\ UNCHANGED <<store, signalled, exit, joinable, deadline, life, clock,
                 evId, nextId, delivered, cancelled, dup, tornAccess, stopAt, stoppedTwice>>

\* the handler returns after being invoked with the pair in head
HandlerRuns ==
  /\ delivered' = Append(delivered, head.id)
  /\ firedTs' = IF head.id # 0 THEN Append(firedTs, head.ts) ELSE firedTs

\* line 86: std::invoke(&TimedEventQueue<T>::onTimestampExpire, this, ...)
\* while the subclass part is destroyed the virtual call is undefined:
\* it either still reaches the handler or aborts
WorkerInvoke ==
  /\ ~crashed
  /\ wpc = "invoke"
  /\ IF obj = "alive"
     THEN /\ HandlerRuns
          /\ UNCHANGED <<tornAccess, crashed>>
     ELSE /\ tornAccess' = TRUE
          /\ \/ HandlerRuns /\ UNCHANGED crashed
             \/ crashed' = TRUE /\ UNCHANGED <<delivered, firedTs>>
  /\ wpc' = "erase"
  /\ UNCHANGED <<store, sync, deadline, current_time, head, spc, obj, clock,
                 evId, nextId, cancelled, dup, stopAt, stoppedTwice>>

\* lines 87-88: erase the pair from both maps; erase(begin()) of an empty
\* map is undefined: the call never returns, the worker spinning inside it
\* with the lock held ("stuck"), or the process aborts
WorkerErase ==
  /\ ~crashed
  /\ wpc = "erase"
  /\ val2Ts' = MapErase(val2Ts, head.val)
  /\ IF DOMAIN ts2Val # {}
     THEN /\ ts2Val' = EraseBegin(ts2Val)
          /\ evId' = EraseBegin(evId)
          /\ wpc' = "test"
          /\ UNCHANGED crashed
     ELSE /\ UNCHANGED <<ts2Val, evId>>
          /\ \/ wpc' = "stuck" /\ UNCHANGED crashed
             \/ wpc' = "test" /\ crashed' = TRUE
  /\ head' = NoHead
  /\ UNCHANGED <<sync, deadline, current_time, spc, obj, clock,
                 nextId, delivered, firedTs, cancelled, dup, tornAccess, stopAt, stoppedTwice>>

\* ------------------------------------------------------------- stop()
\* a stop() that does not test joinable()
StopEntryUnchecked(s) ==
  /\ ~crashed
  /\ spc[s] \in {"idle", "returned"}
  /\ exit' = TRUE
  /\ stopAt' = IF exit THEN stopAt ELSE clock
  /\ spc' = [spc EXCEPT ![s] = "notify"]
  /\ stoppedTwice' = (stoppedTwice \/ \E r \in Stoppers : spc[r] = "returned")
  /\ UNCHANGED <<store, mutex, signalled, joinable, worker, crashed, clock,
                 evId, nextId, delivered, firedTs, cancelled, dup, tornAccess>>

\* lines 257-259: if(_thread.joinable()) _exit.store(true);
StopEntry(s) ==
  /\ ~crashed
  /\ spc[s] \in {"idle", "returned"}
  /\ IF joinable
     THEN /\ exit' = TRUE
          /\ stopAt' = IF exit THEN stopAt ELSE clock
          /\ spc' = [spc EXCEPT ![s] = "notify"]
     ELSE /\ UNCHANGED <<exit, stopAt>>
          /\ spc' = [spc EXCEPT ![s] = "returned"]
  /\ stoppedTwice' = (stoppedTwice \/ \E r \in Stoppers : spc[r] = "returned")
  /\ UNCHANGED <<store, mutex, signalled, joinable, worker, crashed, clock,
                 evId, nextId, delivered, firedTs, cancelled, dup, tornAccess>>

\* stop() called on the live object
StopBegin(s) ==
  /\ obj = "alive"
  /\ StopEntry(s)
  /\ UNCHANGED obj

\* line 260: _cv.notify_one();
StopNotify(s) ==
  /\ ~crashed
  /\ spc[s] = "notify"
  /\ signalled' = NotifyOne
  /\ spc' = [spc EXCEPT ![s] = "join"]
  /\ UNCHANGED <<store, mutex, exit, joinable, worker, obj, crashed, ghost, clock>>

\* line 261, the call: _thread.join() on a thread that is no longer
\* joinable throws std::system_error out of stop(); otherwise the caller
\* blocks in the join
StopJoinEnter(s) ==
  /\ ~crashed
  /\ spc[s] = "join"
  /\ spc' = [spc EXCEPT ![s] = IF joinable THEN "joining" ELSE "threw"]
  /\ UNCHANGED <<store, sync, worker, obj, crashed, ghost, clock>>

\* a stop() that lets go of the worker instead of waiting for run() to
\* return
StopJoinEarly(s) ==
  /\ ~crashed
  /\ spc[s] = "joining"
  /\ joinable
  /\ joinable' = FALSE
  /\ spc' = [spc EXCEPT ![s] = "returned"]
  /\ UNCHANGED <<store, mutex, signalled, exit, worker, obj, crashed, ghost, clock>>

\* line 261, the return: _thread.join() returns once run() has returned
\* and leaves the thread not joinable; for a caller that is inside join()
\* while another caller joins the worker the call is undefined: it returns
\* as well, throws std::system_error out of stop(), or never returns
\* ("blocked")
StopJoin(s) ==
  /\ ~crashed
  /\ spc[s] = "joining"
  /\ wpc = "done"
  /\ IF joinable
     THEN /\ joinable' = FALSE
          /\ spc' = [spc EXCEPT ![s] = "returned"]
     ELSE /\ UNCHANGED joinable
          /\ \E outcome \in {"returned", "threw", "blocked"} :
               spc' = [spc EXCEPT ![s] = outcome]
  /\ UNCHANGED <<store, mutex, signalled, exit, worker, obj, crashed, ghost, clock>>

\* ------------------------------------------------------- destruction
\* ~MyTimedEventQueue(): the subclass part (and its handler) is gone
\* before the base destructor body runs
DestroyDerived ==
  /\ ~crashed
  /\ obj = "alive"
  /\ \A s \in Stoppers : spc[s] \in {"idle", "returned", "threw"}
  /\ obj' = "derived_gone"
  /\ UNCHANGED <<store, sync, worker, spc, crashed, ghost, clock>>

\* line 133: virtual ~TimedEventQueue() { stop(); }
DestroyStop ==
  /\ obj = "derived_gone"
  /\ StopEntry("owner")
  /\ obj' = "stopping"

\* stop() has returned: the members are destroyed
DestroyEnd ==
  /\ ~crashed
  /\ obj = "stopping"
  /\ spc["owner"] = "returned"
  /\ obj' = "destroyed"
  /\ UNCHANGED <<store, sync, worker, spc, crashed, ghost, clock>>

\* ------------------------------------------------------- specifications
\* the callers' mutations; with any = FALSE the callers keep to the
\* documented use: no overlapping timestamps, unique values
Mutation(any) ==
  \/ \E t \in Timestamps, v \in Values :
       (any \/ AddIsUnique(t, v)) /\ addEvent(t, v)
  \/ \E v \in Values : removeEventByValue(v)
  \/ \E t \in Timestamps : removeEventByTimestamp(t)
  \/ \E t \in Timestamps, v \in Values :
       (any \/ UpdateValueIsUnique(t, v)) /\ updateValue(t, v)
  \/ \E t \in Timestamps, v \in Values :
       (any \/ UpdateTimestampIsUnique(t, v)) /\ updateTimestamp(t, v)

WorkerStep ==
  \/ WorkerCheckExit
  \/ WorkerWait
  \/ WorkerTimeout
  \/ WorkerNotified
  \/ WorkerSpurious
  \/ WorkerCheckWoken
  \/ WorkerReadClock
  \/ WorkerTest
  \/ WorkerInvoke
  \/ WorkerErase

Lifecycle ==
  \/ StopBegin("owner")
  \/ StopNotify("owner")
  \/ StopJoinEnter("owner")
  \/ StopJoin("owner")
  \/ DestroyDerived
  \/ DestroyStop
  \/ DestroyEnd

\* the whole life of a queue whose callers keep to the documented use
Next == Mutation(FALSE) \/ WorkerStep \/ Tick \/ Lifecycle

Spec == Init /\ [][Next]_vars

\* stop() called by several threads
ConcurrentStop ==
  \E s \in Stoppers :
    \/ StopBegin(s)
    \/ StopNotify(s)
    \/ StopJoinEnter(s)
    \/ StopJoin(s)

\* a queue whose callers keep to the documented use and that several
\* threads stop; the object outlives all of them
NextConcurrentStop == Mutation(FALSE) \/ WorkerStep \/ Tick \/ ConcurrentStop

SpecConcurrentStop == Init /\ [][NextConcurrentStop]_vars

\* a queue in service (no stop, no destruction) with arbitrary arguments
NextAnyInput == Mutation(TRUE) \/ WorkerStep \/ Tick

SpecAnyInput == Init /\ [][NextAnyInput]_vars

\* a queue in service whose callers keep to the documented use, with the
\* worker thread scheduled fairly and time passing; a spurious wake-up is
\* possible but never guaranteed
NextInService == Mutation(FALSE) \/ WorkerStep \/ Tick

Fairness ==
  /\ WF_vars(Tick)
  /\ WF_vars(WorkerCheckExit)
  /\ WF_vars(WorkerWait)
  /\ WF_vars(WorkerTimeout)
  /\ WF_vars(WorkerNotified)
  /\ WF_vars(WorkerCheckWoken)
  /\ WF_vars(WorkerReadClock)
  /\ WF_vars(WorkerTest)
  /\ WF_vars(WorkerInvoke)
  /\ WF_vars(WorkerErase)

FairSpec == Init /\ [][NextInService]_vars /\ Fairness

\* ------------------------------------------------------------ properties
Range(q) == {q[i] : i \in 1..Len(q)}

\* the pairs each index describes, as (timestamp, value)
PairsOfTs == {<<t, ts2Val[t]>> : t \in DOMAIN ts2Val}

PairsOfVal == {<<val2Ts[v], v>> : v \in DOMAIN val2Ts}

Bijection == PairsOfTs = PairsOfVal

\* C1: as long as no call has introduced a timestamp or a value already
\* held by another stored event, the timestamp index and the value index
\* describe exactly the same set of pairs.
C1_Bijection == ~dup => Bijection

\* events were added, one was removed, and the sentinel was both
\* rescheduled and given another value, all without a duplicate
C1_Witness ==
  /\ ~dup
  /\ cancelled # {}
  /\ Cardinality(DOMAIN ts2Val) >= 2
  /\ \E t \in DOMAIN ts2Val :
       evId[t] = 1 /\ t # Centennial /\ ts2Val[t] # DefaultValue

\* C2: the handler is invoked at most once for every stored event; the
\* invocation and the removal happen while the worker holds the lock, so
\* whenever the lock is free no delivered event is still stored.
C2_ExactlyOnceAtomicFire ==
  /\ \A i, j \in 1..Len(delivered) :
       (delivered[i] = delivered[j] /\ delivered[i] # 0) => i = j
  /\ wpc \in {"invoke", "erase"} => mutex = "worker"
  /\ mutex = "free" => \A t \in DOMAIN evId : evId[t] \notin Range(delivered)

\* two events were delivered, the lock is free again and another event
\* is still stored
C2_Witness ==
  /\ Len(delivered) >= 2
  /\ mutex = "free"
  /\ wpc = "waiting"
  /\ DOMAIN ts2Val # {}

\* C4: within one drain the stored events are handed to the handler in
\* strictly ascending timestamp order, each being the earliest stored
\* event at the time it is fired.
C4_DeliveryOrder ==
  /\ \A i, j \in 1..Len(firedTs) : i < j => firedTs[i] < firedTs[j]
  /\ (wpc = "erase" /\ head.id # 0) => \A t \in DOMAIN ts2Val : head.ts <= t

\* one drain has fired two stored events
C4_Witness == Len(firedTs) >= 2

\* C5: the handler is only invoked for a pair whose timestamp is not
\* later than the clock value the worker read, which is not later than
\* the clock.
C5_NoEarlyDelivery ==
  wpc \in {"invoke", "erase"} =>
    (head.ts <= current_time /\ current_time <= clock)

\* an event was just fired while a later event of a caller stays stored
C5_Witness ==
  /\ wpc = "erase"
  /\ head.id > 1
  /\ \E t \in DOMAIN ts2Val : t > current_time /\ evId[t] > 1

\* C6: with unique timestamps and values, an event addressed by a
\* completed removeEvent is never handed to the handler.
C6_CancelBeforeFire == ~dup => Range(delivered) \cap cancelled = {}

\* a caller's event was removed, another one fired, and the clock has
\* passed every caller timestamp
C6_Witness ==
  /\ ~dup
  /\ cancelled \ {1} # {}
  /\ delivered # << >>
  /\ clock = MaxTime
  /\ wpc = "waiting"

\* C7: the worker is never blocked, with no wake-up pending, on a deadline
\* later than the earliest stored timestamp.
C7_NoStaleDeadline ==
  (wpc = "waiting" /\ ~signalled /\ DOMAIN ts2Val # {}) =>
    deadline <= MapBeginKey(ts2Val)

\* the worker is blocked on a deadline that an addEvent or updateTimestamp
\* has made stale, and the wake-up is pending
C7_Witness ==
  /\ wpc = "waiting"
  /\ signalled
  /\ DOMAIN ts2Val # {}
  /\ deadline > MapBeginKey(ts2Val)

\* the event with identity i is stored under timestamp t
Stored(i, t) == t \in DOMAIN evId /\ evId[t] = i

\* C3: an event added by a caller that is never removed or rescheduled is
\* eventually handed to the handler, unless stop() is requested: it does
\* not stay stored forever.
C3_NoLostEvent ==
  \A i \in 2..MaxId : \A t \in Timestamps :
    Stored(i, t) ~> (i \in Range(delivered) \/ ~Stored(i, t) \/ exit)

\* both events added by callers were delivered although another caller
\* removed an event in between
C3_Witness ==
  /\ {2, 3} \subseteq Range(delivered)
  /\ cancelled # {}
  /\ wpc = "waiting"

\* C8: once stop() has set the flag and signalled the condition, the
\* worker is not left blocked in the wait with no wake-up pending.
C8_StopWakesLoop ==
  ~(/\ spc["owner"] \in {"join", "joining"}
    /\ wpc = "waiting"
    /\ ~signalled
    /\ clock < deadline)

\* C9: once stop() has returned the worker has left run() and the handler
\* is never invoked again; the lock is free, so later mutations still run,
\* and they run without aborting.
C9_NoDeliveryAfterStop ==
  /\ [](spc["owner"] = "returned" =>
          (wpc = "done" /\ mutex = "free" /\ ~joinable /\ ~crashed))
  /\ [][spc["owner"] = "returned" => delivered' = delivered]_vars

\* stop() has returned with the object alive, and an event that is due is
\* stored and was not delivered
C9_Witness ==
  /\ spc["owner"] = "returned"
  /\ obj = "alive"
  /\ \E t \in DOMAIN ts2Val : t <= clock
  /\ delivered # << >>

\* C10: the worker never invokes the handler, for an event taken from the
\* store, on an object whose subclass part has been destroyed, and it has
\* left run() when the object is gone.
C10_NoTornDownAccess ==
  /\ ~(tornAccess /\ wpc = "erase" /\ head.id # 0)
  /\ obj = "destroyed" => wpc = "done"

\* C11: with callers keeping to disjoint timestamps and values, the worker
\* holds the lock at every point of run() between the return of the wait
\* and the end of the drain (every lookup of the earliest element, every
\* erase), it holds it nowhere else, and whenever the lock is free both
\* indices describe the same pairs.
C11_LockedIndexAccess ==
  /\ wpc \in {"woken", "read_clock", "test", "invoke", "erase", "stuck"}
       => mutex = "worker"
  /\ wpc \in {"loop", "lock", "waiting", "done"} => mutex = "free"
  /\ mutex = "free" => Bijection

\* the lock is free after callers added and removed events while the
\* worker delivered one of them
C11_Witness ==
  /\ mutex = "free"
  /\ wpc = "waiting"
  /\ cancelled \ {1} # {}
  /\ \E i \in 2..MaxId : i \in Range(delivered)
  /\ DOMAIN ts2Val # {}

\* the pairs after the pair (t, v) was replaced by (t2, v2)
Replaced(pairs, t, v, t2, v2) == (pairs \ {<<t, v>>}) \cup {<<t2, v2>>}

\* C12: on a store satisfying the bijection, updateValue(t, v) on a stored
\* timestamp t with v not stored replaces the pair of t by (t, v) in both
\* indices, and updateTimestamp(t, v) on a stored value v with t unoccupied
\* replaces the pair of v by (t, v) in both indices; the number of stored
\* events and every other pair stay as they were.
C12_InPlaceUpdate ==
  [][\A t \in Timestamps, v \in Values :
       /\ (/\ Bijection
           /\ t \in DOMAIN ts2Val
           /\ v \notin DOMAIN val2Ts
           /\ updateValue(t, v))
          => /\ PairsOfTs' = Replaced(PairsOfTs, t, ts2Val[t], t, v)
             /\ PairsOfVal' = Replaced(PairsOfVal, t, ts2Val[t], t, v)
             /\ Cardinality(DOMAIN ts2Val') = Cardinality(DOMAIN ts2Val)
             /\ Cardinality(DOMAIN val2Ts') = Cardinality(DOMAIN val2Ts)
       /\ (/\ Bijection
           /\ v \in DOMAIN val2Ts
           /\ t \notin DOMAIN ts2Val
           /\ updateTimestamp(t, v))
          => /\ PairsOfTs' = Replaced(PairsOfTs, val2Ts[v], v, t, v)
             /\ PairsOfVal' = Replaced(PairsOfVal, val2Ts[v], v, t, v)
             /\ Cardinality(DOMAIN ts2Val') = Cardinality(DOMAIN ts2Val)
             /\ Cardinality(DOMAIN val2Ts') = Cardinality(DOMAIN val2Ts)
  ]_vars

\* the event created by the constructor was moved to a caller's timestamp
\* and given another value, next to an event a caller added
C12_Witness ==
  \E t \in Timestamps :
    /\ Stored(1, t)
    /\ ts2Val[t] # DefaultValue
    /\ val2Ts[ts2Val[t]] = t
    /\ \E u \in DOMAIN ts2Val : evId[u] = 2

\* C13: a removeEvent of a value or of a timestamp that is not stored, an
\* updateValue on a timestamp that is not stored and an updateTimestamp on
\* a value that is not stored return normally and leave both indices as
\* they were; after a removeEvent its key is not stored, so a second
\* removeEvent of the same key is such a call.
C13_AbsentKeyNoOp ==
  [][/\ \A v \in Values :
          /\ (v \notin DOMAIN val2Ts /\ removeEventByValue(v))
               => (UNCHANGED store /\ ~crashed')
          /\ removeEventByValue(v) => v \notin DOMAIN val2Ts'
     /\ \A t \in Timestamps :
          /\ (t \notin DOMAIN ts2Val /\ removeEventByTimestamp(t))
               => (UNCHANGED store /\ ~crashed')
          /\ removeEventByTimestamp(t) => t \notin DOMAIN ts2Val'
     /\ \A t \in Timestamps, v \in Values :
          /\ (t \notin DOMAIN ts2Val /\ updateValue(t, v))
               => (UNCHANGED store /\ ~crashed')
          /\ (v \notin DOMAIN val2Ts /\ updateTimestamp(t, v))
               => (UNCHANGED store /\ ~crashed')
  ]_vars

\* an update call on an absent key has acted: its notification is pending
\* at the blocked worker while no event was ever added, removed, moved or
\* given another value, and stop() was not called
C13_Witness ==
  /\ wpc = "waiting"
  /\ signalled
  /\ ~exit
  /\ nextId = 2
  /\ cancelled = {}
  /\ ts2Val = MapEmplace(EmptyMap, Centennial, DefaultValue)
  /\ val2Ts = MapEmplace(EmptyMap, DefaultValue, Centennial)

\* the event created by the constructor is stored as constructed
SentinelStored ==
  /\ Stored(1, Centennial)
  /\ ts2Val[Centennial] = DefaultValue
  /\ DefaultValue \in DOMAIN val2Ts
  /\ val2Ts[DefaultValue] = Centennial

\* the timestamp index holds an element whenever the worker dereferences
\* begin() (lines 76, 84, 86-88)
C14_NeverEmptyAtLookup ==
  (wpc \in {"lock", "test", "invoke", "erase"} /\ ~crashed) => DOMAIN ts2Val # {}

\* the handler is never invoked for the event created by the constructor
C14_SentinelNeverFires == 1 \notin Range(delivered)

\* C14: until stop() is requested the sentinel pair (far-future timestamp,
\* T()) is stored, the timestamp index is not empty when the worker looks
\* up its earliest element, and the sentinel is never handed to the
\* handler.
C14_SentinelAlwaysPresent ==
  /\ ~exit => SentinelStored
  /\ ~exit => C14_NeverEmptyAtLookup
  /\ C14_SentinelNeverFires

\* C15: an addEvent(t, v) on a store satisfying the bijection, with v
\* already stored at another timestamp (the sentinel's T() included) and t
\* unoccupied, leaves both indices describing the same set of pairs.
C15_DuplicateValueKeepsBijection ==
  [][\A t \in Timestamps, v \in Values :
       (/\ Bijection
        /\ v \in DOMAIN val2Ts
        /\ val2Ts[v] # t
        /\ t \notin DOMAIN ts2Val
        /\ addEvent(t, v))
       => Bijection'
  ]_vars

\* C18: once stop() has set the stop flag, at clock instant stopAt, the
\* handler is not invoked for a stored event whose timestamp is strictly
\* greater than stopAt.
C18_NoDeliveryDueAfterStop ==
  [][(exit /\ delivered' # delivered /\ head.id # 0) => head.ts <= stopAt]_vars

\* C16: a stop() called after some stop() has returned returns at once:
\* it does not set the flag, signal or join, and nothing but the caller's
\* own position changes, so the state after the second call is the state
\* after the first.
C16_StopIdempotent ==
  [][\A s \in Stoppers :
       ((\E r \in Stoppers : spc[r] = "returned") /\ StopBegin(s))
       => /\ spc'[s] = "returned"
          /\ \A r \in Stoppers \ {s} : spc'[r] = spc[r]
          /\ UNCHANGED <<store, sync, worker, obj, crashed, clock>>
          /\ UNCHANGED <<evId, nextId, delivered, firedTs, cancelled, dup,
                         tornAccess, stopAt>>
  ]_vars

\* a second thread called stop() after the first stop() had joined the
\* worker, and returned
C16_Witness ==
  /\ stoppedTwice
  /\ \A s \in Stoppers : spc[s] = "returned"
  /\ wpc = "done"
  /\ ~joinable
  /\ delivered # << >>

\* C17: with several threads in stop() at most one of them is in join()
\* on the worker, none is in join() on a worker that another thread has
\* already joined, and no stop() ends by throwing.
C17_ConcurrentStopSafe ==
  /\ Cardinality({s \in Stoppers : spc[s] = "joining"}) <= 1
  /\ \A s \in Stoppers :
       /\ spc[s] # "threw"
       /\ spc[s] = "joining" => joinable

\* a stop() called together with another one never returns: it is still
\* in join() after the other has joined the worker
C17_BlockedForever ==
  \E s \in Stoppers : spc[s] = "blocked" /\ wpc = "done" /\ ~joinable

\* a stop() called together with another one ended by throwing
C17_Threw == \E s \in Stoppers : spc[s] = "threw"

\* C19: every addEvent, removeEvent (by value or by timestamp),
\* updateValue, updateTimestamp and stop() made while the worker is blocked
\* in the wait leaves a wake-up pending for it.
C19_EveryMutationSignals ==
  [][(/\ wpc = "waiting"
      /\ \/ \E t \in Timestamps, v \in Values : addEvent(t, v)
         \/ \E v \in Values : removeEventByValue(v)
         \/ \E t \in Timestamps : removeEventByTimestamp(t)
         \/ \E t \in Timestamps, v \in Values : updateValue(t, v)
         \/ \E t \in Timestamps, v \in Values : updateTimestamp(t, v)
         \/ \E s \in Stoppers : StopNotify(s))
     => signalled'
  ]_vars

\* the entries of m whose key is not in gone are the same in m2
Kept(m, m2, gone) ==
  \A k \in DOMAIN m \ gone : k \in DOMAIN m2 /\ m2[k] = m[k]

\* C20: in every reachable state removeEvent(v) erases from the timestamp
\* index only entries whose value is v and from the value index only the
\* entry of v; removeEvent(t) erases from the value index only entries
\* whose timestamp is t and from the timestamp index only the entry of t;
\* every other entry of both indices stays as it was.
C20_RemoveExactlyAddressed ==
  [][/\ \A v \in Values :
          removeEventByValue(v)
          => /\ Kept(ts2Val, ts2Val', {t \in DOMAIN ts2Val : ts2Val[t] = v})
             /\ Kept(val2Ts, val2Ts', {v})
     /\ \A t \in Timestamps :
          removeEventByTimestamp(t)
          => /\ Kept(val2Ts, val2Ts', {w \in DOMAIN val2Ts : val2Ts[w] = t})
             /\ Kept(ts2Val, ts2Val', {t})
  ]_vars

====
